---------------------------- MODULE Spec2Model ----------------------------
(***************************************************************************)
(* Model of kerykeion/main.py (class KrInstance): the classification of    *)
(* ecliptic longitudes into signs (position_calc), the assignment of       *)
(* bodies to houses (planets_in_houses / for_every_planet / point_between),*)
(* the retrograde flags, the lunar phase (lunar_phase_calc / moon_emoji)   *)
(* and the sequencing of these steps (get_all, make_lists).                *)
(*                                                                         *)
(* Longitudes are Python floats in the source.  They are modelled as       *)
(* fixed-point integers counting units of 1/UnitsPerDegree of a degree;    *)
(* the resolution is a multiple of 1/70 degree so that tenths of a degree  *)
(* and the lunar step 360/28 are whole numbers of units.  Rounding of the  *)
(* float operations is not modelled.                                       *)
(***************************************************************************)
EXTENDS Integers, Sequences, FiniteSets, TLC

VARIABLES
    pc,                \* position of __init__/get_all: start, lunar, lists, done, raised
    exception,         \* name of the exception that ended get_all, or "none"
    planets_degrees,   \* self.planets_degrees: 12 longitudes, canonical order
    houses_degree_ut,  \* self.houses_degree_ut: 12 cusps, house order
    planets,           \* self.sun .. self.true_node: 12 dictionaries
    houses,            \* self.first_house .. self.twelfth_house: 12 dictionaries
    lunar_phase,       \* self.lunar_phase
    planets_list,      \* self.planets_list (make_lists)
    houses_list,       \* self.houses_list (make_lists)
    swe_calc,          \* swe_calc[n + 1]: swe.calc(self.julian_day, n, self.iflag)[0][3]
    ret                \* the last direct call of a pure function: its arguments and result

vars == <<pc, exception, planets_degrees, houses_degree_ut, planets, houses,
          lunar_phase, planets_list, houses_list, swe_calc, ret>>

---------------------------------------------------------------------------
(* Bounds of the model.                                                    *)

\* Longitudes are sampled at every boundary the code compares against and at
\* 1..Margin resolution units on either side of it.
Margin == 1

\* Refinement of the fixed-point grid: 70 * Resolution units per degree.
Resolution == 1

---------------------------------------------------------------------------
(* Units.                                                                  *)

UnitsPerDegree == 70 * Resolution

\* n degrees, and n tenths of a degree, in units
Deg(n) == n * UnitsPerDegree
Tenths(n) == (n * UnitsPerDegree) \div 10

\* math.fmod(x, y) for y > 0: the remainder has the sign of x
fmod(x, y) == IF x >= 0 THEN x % y ELSE 0 - ((0 - x) % y)

---------------------------------------------------------------------------
(* Python values.                                                          *)

\* raise <name>
Raise(name) == [raised |-> name]
IsRaise(v) == "raised" \in DOMAIN v

\* return <value>, for a function that may raise instead
Return(value) == [result |-> value]

\* an attribute that has not been assigned yet
Unset == [unset |-> TRUE]

\* d[key] = value on a dictionary d
SetItem(d, key, value) == (key :> value) @@ d

---------------------------------------------------------------------------
(* KrInstance.position_calc                                                *)

\* The mutation: the elements of Leo and Virgo are exchanged.
SignTable_swapped == <<
    [quality |-> "Cardinal", element |-> "Fire",  sign |-> "Ari", sign_num |-> 0,  emoji |-> "U+2648"],
    [quality |-> "Fixed",    element |-> "Earth", sign |-> "Tau", sign_num |-> 1,  emoji |-> "U+2649"],
    [quality |-> "Mutable",  element |-> "Air",   sign |-> "Gem", sign_num |-> 2,  emoji |-> "U+264A"],
    [quality |-> "Cardinal", element |-> "Water", sign |-> "Can", sign_num |-> 3,  emoji |-> "U+264B"],
    [quality |-> "Fixed",    element |-> "Earth", sign |-> "Leo", sign_num |-> 4,  emoji |-> "U+264C"],
    [quality |-> "Mutable",  element |-> "Fire",  sign |-> "Vir", sign_num |-> 5,  emoji |-> "U+264D"],
    [quality |-> "Cardinal", element |-> "Air",   sign |-> "Lib", sign_num |-> 6,  emoji |-> "U+264E"],
    [quality |-> "Fixed",    element |-> "Water", sign |-> "Sco", sign_num |-> 7,  emoji |-> "U+264F"],
    [quality |-> "Mutable",  element |-> "Fire",  sign |-> "Sag", sign_num |-> 8,  emoji |-> "U+2650"],
    [quality |-> "Cardinal", element |-> "Earth", sign |-> "Cap", sign_num |-> 9,  emoji |-> "U+2651"],
    [quality |-> "Fixed",    element |-> "Air",   sign |-> "Aqu", sign_num |-> 10, emoji |-> "U+2652"],
    [quality |-> "Mutable",  element |-> "Water", sign |-> "Pis", sign_num |-> 11, emoji |-> "U+2653"] >>

\* The constant part of the dictionary literal of each branch; glyphs are
\* written as their code points.
SignTable == <<
    [quality |-> "Cardinal", element |-> "Fire",  sign |-> "Ari", sign_num |-> 0,  emoji |-> "U+2648"],
    [quality |-> "Fixed",    element |-> "Earth", sign |-> "Tau", sign_num |-> 1,  emoji |-> "U+2649"],
    [quality |-> "Mutable",  element |-> "Air",   sign |-> "Gem", sign_num |-> 2,  emoji |-> "U+264A"],
    [quality |-> "Cardinal", element |-> "Water", sign |-> "Can", sign_num |-> 3,  emoji |-> "U+264B"],
    [quality |-> "Fixed",    element |-> "Fire",  sign |-> "Leo", sign_num |-> 4,  emoji |-> "U+264C"],
    [quality |-> "Mutable",  element |-> "Earth", sign |-> "Vir", sign_num |-> 5,  emoji |-> "U+264D"],
    [quality |-> "Cardinal", element |-> "Air",   sign |-> "Lib", sign_num |-> 6,  emoji |-> "U+264E"],
    [quality |-> "Fixed",    element |-> "Water", sign |-> "Sco", sign_num |-> 7,  emoji |-> "U+264F"],
    [quality |-> "Mutable",  element |-> "Fire",  sign |-> "Sag", sign_num |-> 8,  emoji |-> "U+2650"],
    [quality |-> "Cardinal", element |-> "Earth", sign |-> "Cap", sign_num |-> 9,  emoji |-> "U+2651"],
    [quality |-> "Fixed",    element |-> "Air",   sign |-> "Aqu", sign_num |-> 10, emoji |-> "U+2652"],
    [quality |-> "Mutable",  element |-> "Water", sign |-> "Pis", sign_num |-> 11, emoji |-> "U+2653"] >>

\* {label: number_name, "quality": .., .., "position": result, "abs_pos": degree, ..}
\* of branch i: in a dictionary literal a later key replaces an equal earlier one.
SignDict(i, label, number_name, result, degree) ==
    (SignTable[i] @@ [position |-> result, abs_pos |-> degree]) @@ (label :> number_name)

\* The mutation: the Taurus branch compares with <= instead of <.
position_calc_closed(degree, number_name, label) ==
    IF degree < Deg(30)       THEN SignDict(1, label, number_name, degree, degree)
    ELSE IF degree <= Deg(60) THEN SignDict(2, label, number_name, degree - Deg(30), degree)
    ELSE IF degree < Deg(90)  THEN SignDict(3, label, number_name, degree - Deg(60), degree)
    ELSE IF degree < Deg(120) THEN SignDict(4, label, number_name, degree - Deg(90), degree)
    ELSE IF degree < Deg(150) THEN SignDict(5, label, number_name, degree - Deg(120), degree)
    ELSE IF degree < Deg(180) THEN SignDict(6, label, number_name, degree - Deg(150), degree)
    ELSE IF degree < Deg(210) THEN SignDict(7, label, number_name, degree - Deg(180), degree)
    ELSE IF degree < Deg(240) THEN SignDict(8, label, number_name, degree - Deg(210), degree)
    ELSE IF degree < Deg(270) THEN SignDict(9, label, number_name, degree - Deg(240), degree)
    ELSE IF degree < Deg(300) THEN SignDict(10, label, number_name, degree - Deg(270), degree)
    ELSE IF degree < Deg(330) THEN SignDict(11, label, number_name, degree - Deg(300), degree)
    ELSE IF degree < Deg(360) THEN SignDict(12, label, number_name, degree - Deg(330), degree)
    ELSE Raise("KerykeionException")

position_calc(degree, number_name, label) ==
    IF degree < Deg(30)       THEN SignDict(1, label, number_name, degree, degree)
    ELSE IF degree < Deg(60)  THEN SignDict(2, label, number_name, degree - Deg(30), degree)
    ELSE IF degree < Deg(90)  THEN SignDict(3, label, number_name, degree - Deg(60), degree)
    ELSE IF degree < Deg(120) THEN SignDict(4, label, number_name, degree - Deg(90), degree)
    ELSE IF degree < Deg(150) THEN SignDict(5, label, number_name, degree - Deg(120), degree)
    ELSE IF degree < Deg(180) THEN SignDict(6, label, number_name, degree - Deg(150), degree)
    ELSE IF degree < Deg(210) THEN SignDict(7, label, number_name, degree - Deg(180), degree)
    ELSE IF degree < Deg(240) THEN SignDict(8, label, number_name, degree - Deg(210), degree)
    ELSE IF degree < Deg(270) THEN SignDict(9, label, number_name, degree - Deg(240), degree)
    ELSE IF degree < Deg(300) THEN SignDict(10, label, number_name, degree - Deg(270), degree)
    ELSE IF degree < Deg(330) THEN SignDict(11, label, number_name, degree - Deg(300), degree)
    ELSE IF degree < Deg(360) THEN SignDict(12, label, number_name, degree - Deg(330), degree)
    ELSE Raise("KerykeionException")

---------------------------------------------------------------------------
(* planets_in_houses: point_between and for_every_planet                   *)

\* The mutation: the far end of the arc is excluded (p1_p3 >= p1_p2).
point_between_half_open(p1, p2, p3) ==
    LET p1_p2 == fmod(p2 - p1 + Deg(360), Deg(360))
        p1_p3 == fmod(p3 - p1 + Deg(360), Deg(360))
    IN  IF (p1_p2 <= Deg(180)) # (p1_p3 >= p1_p2) THEN TRUE ELSE FALSE

\* The mutation: an arc of exactly 180 counts as reflex (p1_p2 < 180).
point_between_strict_half(p1, p2, p3) ==
    LET p1_p2 == fmod(p2 - p1 + Deg(360), Deg(360))
        p1_p3 == fmod(p3 - p1 + Deg(360), Deg(360))
    IN  IF (p1_p2 < Deg(180)) # (p1_p3 > p1_p2) THEN TRUE ELSE FALSE

\* The mutation: the distances are taken without the + 360 that keeps them positive.
point_between_no_wrap(p1, p2, p3) ==
    LET p1_p2 == fmod(p2 - p1, Deg(360))
        p1_p3 == fmod(p3 - p1, Deg(360))
    IN  IF (p1_p2 <= Deg(180)) # (p1_p3 > p1_p2) THEN TRUE ELSE FALSE

\* The mutation: the plain forward-arc test, without the comparison of the
\* span with 180.
point_between_forward(p1, p2, p3) ==
    LET p1_p2 == fmod(p2 - p1 + Deg(360), Deg(360))
        p1_p3 == fmod(p3 - p1 + Deg(360), Deg(360))
    IN  IF p1_p3 <= p1_p2 THEN TRUE ELSE FALSE

point_between(p1, p2, p3) ==
    LET p1_p2 == fmod(p2 - p1 + Deg(360), Deg(360))
        p1_p3 == fmod(p3 - p1 + Deg(360), Deg(360))
    IN  IF (p1_p2 <= Deg(180)) # (p1_p3 > p1_p2) THEN TRUE ELSE FALSE

\* The strings assigned to planet["house"], in the order of the elif chain
HouseNames == << "1st House", "2nd House", "3rd House", "4th House", "5th House",
                 "6th House", "7th House", "8th House", "9th House", "10th House",
                 "11th House", "12th House" >>

\* the cusp that ends house i: houses_degree_ut[i] for i < 12, houses_degree_ut[0] for 12
\* (Python indexes from 0, the sequences of the model from 1)
NextCusp(i) == (i % 12) + 1

\* The if/elif chain from branch i on: the first test that holds decides.
RECURSIVE house_chain(_, _, _)
house_chain(i, cusps, planet_deg) ==
    IF i > 12 THEN "error!"
    ELSE IF point_between(cusps[i], cusps[NextCusp(i)], planet_deg) = TRUE
         THEN HouseNames[i]
         ELSE house_chain(i + 1, cusps, planet_deg)

\* The mutation: the chain is walked from the last house down, so the last
\* matching test decides.
RECURSIVE house_chain_down(_, _, _)
house_chain_down(i, cusps, planet_deg) ==
    IF i < 1 THEN "error!"
    ELSE IF point_between(cusps[i], cusps[NextCusp(i)], planet_deg) = TRUE
         THEN HouseNames[i]
         ELSE house_chain_down(i - 1, cusps, planet_deg)

for_every_planet_last_match(cusps, planet, planet_deg) ==
    SetItem(planet, "house", house_chain_down(12, cusps, planet_deg))

\* The mutation: the chain starts at the test of the second house.
for_every_planet_from_second(cusps, planet, planet_deg) ==
    SetItem(planet, "house", house_chain(2, cusps, planet_deg))

\* cusps is self.houses_degree_ut, which the nested function reads
for_every_planet(cusps, planet, planet_deg) ==
    SetItem(planet, "house", house_chain(1, cusps, planet_deg))

---------------------------------------------------------------------------
(* planets(), houses(), the retrograde loop                                *)

\* The names given to position_calc by planets() and by houses()
PlanetNames == << "Sun", "Moon", "Mercury", "Venus", "Mars", "Jupiter", "Saturn",
                  "Uranus", "Neptune", "Pluto", "Mean_Node", "True_Node" >>

HouseNumbers == << "1", "2", "3", "4", "5", "6", "7", "8", "9", "10", "11", "12" >>

\* str.lower() on the names of the bodies
lower(name) ==
    CASE name = "Sun" -> "sun"
      [] name = "Moon" -> "moon"
      [] name = "Mercury" -> "mercury"
      [] name = "Venus" -> "venus"
      [] name = "Mars" -> "mars"
      [] name = "Jupiter" -> "jupiter"
      [] name = "Saturn" -> "saturn"
      [] name = "Uranus" -> "uranus"
      [] name = "Neptune" -> "neptune"
      [] name = "Pluto" -> "pluto"
      [] name = "Mean_Node" -> "mean_node"
      [] name = "True_Node" -> "true_node"
      [] OTHER -> name

\* get_number on the names of the bodies (the int(name) branch is not reached by them)
get_number(name) ==
    LET n == lower(name)
    IN  CASE n = "sun" -> 0
          [] n = "moon" -> 1
          [] n = "mercury" -> 2
          [] n = "venus" -> 3
          [] n = "mars" -> 4
          [] n = "jupiter" -> 5
          [] n = "saturn" -> 6
          [] n = "uranus" -> 7
          [] n = "neptune" -> 8
          [] n = "pluto" -> 9
          [] n = "mean_node" -> 10
          [] n = "true_node" -> 11

\* The twelve position_calc calls of planets() / houses(): the dictionaries
\* assigned before the first call that raises (all twelve when none does).
RECURSIVE Assigned(_, _, _)
Assigned(i, degrees, names) ==
    IF i > 12 THEN << >>
    ELSE LET d == position_calc(degrees[i], names[i], "name")
         IN  IF IsRaise(d) THEN << >> ELSE << d >> \o Assigned(i + 1, degrees, names)

\* The mutation: a body standing still (speed 0) counts as retrograde.
retrograde_or_still(p, speeds) ==
    LET planet_number == get_number(p["name"])
    IN  IF speeds[planet_number + 1] <= 0
        THEN SetItem(p, "retrograde", TRUE)
        ELSE SetItem(p, "retrograde", FALSE)

\* The loop "for p in planets_list": speeds[n + 1] is what
\* swe.calc(self.julian_day, n, self.iflag)[0][3] returns for body number n.
retrograde(p, speeds) ==
    LET planet_number == get_number(p["name"])
    IN  IF speeds[planet_number + 1] < 0
        THEN SetItem(p, "retrograde", TRUE)
        ELSE SetItem(p, "retrograde", FALSE)

---------------------------------------------------------------------------
(* lunar_phase_calc                                                        *)

\* The string 'NO DATA'.  The phases are integers from 1 on, so the string is
\* encoded as the integer 0; what Python refuses to do with a string (the
\* comparison phase < 7 in moon_emoji) is modelled as the TypeError it raises.
NO_DATA == 0

\* step = 360.0 / 28.0
step == Deg(360) \div 28

\* for x in range(28): every x is visited, the last bucket that holds decides
RECURSIVE step_loop(_, _, _)
step_loop(x, degrees_between, mphase) ==
    IF x >= 28 THEN mphase
    ELSE LET low == x * step
             high == (x + 1) * step
         IN  step_loop(x + 1, degrees_between,
                       IF degrees_between >= low /\ degrees_between < high
                       THEN x + 1 ELSE mphase)

sunstep == << Deg(0), Deg(30), Deg(40), Deg(50), Deg(60), Deg(70), Deg(80), Deg(90),
              Deg(120), Deg(130), Deg(140), Deg(150), Deg(160), Deg(170), Deg(180),
              Deg(210), Deg(220), Deg(230), Deg(240), Deg(250), Deg(260), Deg(270),
              Deg(300), Deg(310), Deg(320), Deg(330), Deg(340), Deg(350) >>

\* for x in range(len(sunstep)); sunstep[x] of the code is sunstep[x + 1] here
RECURSIVE sunstep_loop(_, _, _)
sunstep_loop(x, degrees_between, sphase) ==
    IF x >= Len(sunstep) THEN sphase
    ELSE LET low == sunstep[x + 1]
             high == IF x = 27 THEN Deg(360) ELSE sunstep[x + 2]
         IN  sunstep_loop(x + 1, degrees_between,
                          IF degrees_between >= low /\ degrees_between < high
                          THEN x + 1 ELSE sphase)

\* The mutation: the waxing-gibbous branch compares with <= 14, so the branch
\* of the full moon is never taken.
moon_emoji_late_full(phase) ==
    IF phase = 1 THEN Return("U+1F311")
    ELSE IF phase = NO_DATA THEN Raise("TypeError")
    ELSE IF phase < 7 THEN Return("U+1F312")
    ELSE IF 7 <= phase /\ phase <= 9 THEN Return("U+1F313")
    ELSE IF phase <= 14 THEN Return("U+1F314")
    ELSE IF phase = 14 THEN Return("U+1F315")
    ELSE IF phase < 20 THEN Return("U+1F316")
    ELSE IF 20 <= phase /\ phase <= 22 THEN Return("U+1F317")
    ELSE IF phase <= 28 THEN Return("U+1F318")
    ELSE Return(phase)

\* Glyphs are written as their code points: U+1F311 new moon, U+1F312 waxing
\* crescent, U+1F313 first quarter, U+1F314 waxing gibbous, U+1F315 full moon,
\* U+1F316 waning gibbous, U+1F317 last quarter, U+1F318 waning crescent.
moon_emoji(phase) ==
    IF phase = 1 THEN Return("U+1F311")
    ELSE IF phase = NO_DATA THEN Raise("TypeError")   \* 'NO DATA' < 7
    ELSE IF phase < 7 THEN Return("U+1F312")
    ELSE IF 7 <= phase /\ phase <= 9 THEN Return("U+1F313")
    ELSE IF phase < 14 THEN Return("U+1F314")
    ELSE IF phase = 14 THEN Return("U+1F315")
    ELSE IF phase < 20 THEN Return("U+1F316")
    ELSE IF 20 <= phase /\ phase <= 22 THEN Return("U+1F317")
    ELSE IF phase <= 28 THEN Return("U+1F318")
    ELSE Return(phase)

\* degrees_between: moon - sun, plus 360.0 when that is negative
separation(moon, sun) ==
    LET degrees_between == moon - sun
    IN  IF degrees_between < 0 THEN degrees_between + Deg(360) ELSE degrees_between

\* The mutation: the buckets are closed at the top (degrees_between <= high).
RECURSIVE step_loop_closed(_, _, _)
step_loop_closed(x, degrees_between, mphase) ==
    IF x >= 28 THEN mphase
    ELSE LET low == x * step
             high == (x + 1) * step
         IN  IF degrees_between >= low /\ degrees_between <= high
             THEN x + 1
             ELSE step_loop_closed(x + 1, degrees_between, mphase)

synodic_index_closed(degrees_between) == step_loop_closed(0, degrees_between, NO_DATA)

\* mphase after the step loop
synodic_index(degrees_between) == step_loop(0, degrees_between, NO_DATA)

\* The mutation: the table is indexed one place too far (low = sunstep[x + 1]).
RECURSIVE sunstep_loop_shifted(_, _, _)
sunstep_loop_shifted(x, degrees_between, sphase) ==
    IF x >= Len(sunstep) THEN sphase
    ELSE LET low == IF x = 27 THEN Deg(360) ELSE sunstep[x + 2]
             high == IF x >= 26 THEN Deg(360) ELSE sunstep[x + 3]
         IN  sunstep_loop_shifted(x + 1, degrees_between,
                                  IF degrees_between >= low /\ degrees_between < high
                                  THEN x + 1 ELSE sphase)

solar_index_shifted(degrees_between) == sunstep_loop_shifted(0, degrees_between, NO_DATA)

\* sphase after the sunstep loop
solar_index(degrees_between) == sunstep_loop(0, degrees_between, NO_DATA)

\* The mutation: the separation is taken from the Sun to the Moon the wrong way round.
lunar_phase_calc_swapped(degrees) ==
    LET degrees_between == separation(degrees[1], degrees[2])
        mphase == synodic_index(degrees_between)
        sphase == solar_index(degrees_between)
        emoji == moon_emoji(mphase)
    IN  IF IsRaise(emoji) THEN emoji
        ELSE [degrees_between_s_m |-> degrees_between, moon_phase |-> mphase,
              sun_phase |-> sphase, moon_emoji |-> emoji.result]

\* The dictionary assigned to self.lunar_phase, or the exception raised on the
\* way to it; degrees is self.planets_degrees (the Sun first, the Moon second).
lunar_phase_calc(degrees) ==
    LET degrees_between == separation(degrees[2], degrees[1])
        mphase == synodic_index(degrees_between)
        sphase == solar_index(degrees_between)
        emoji == moon_emoji(mphase)
    IN  IF IsRaise(emoji) THEN emoji
        ELSE [degrees_between_s_m |-> degrees_between, moon_phase |-> mphase,
              sun_phase |-> sphase, moon_emoji |-> emoji.result]

---------------------------------------------------------------------------
(* The inputs: what the ephemeris (swe.calc, swe.houses) hands to the code *)

\* Every value the code compares a longitude or a separation with, and the
\* longitudes of the worked examples (77.5, 100.2, 22.7, 45, 355, 5).
Breakpoints ==
    {Deg(10) * k : k \in 0..36} \cup {step * k : k \in 0..28}
    \cup {Tenths(775), Tenths(1002), Tenths(227), Deg(45), Deg(355), Deg(5)}

Around(S) == {b + o : b \in S, o \in (0 - Margin)..Margin}

\* longitudes in [0, 360)
Longitudes == {d \in Around(Breakpoints) : 0 <= d /\ d < Deg(360)}

\* arguments of a direct call of position_calc: also below 0 and from 360 on
Degrees == Around(Breakpoints \cup {0 - Deg(30), 0 - Deg(1), Deg(390), Deg(720)})

\* Three longitudes of the Sun (and of the first cusp)
SunSamples == << Deg(0), Tenths(775), Deg(350) >>

\* The twelve longitudes of planets_deegrees_lister: the Sun, the Moon, and the
\* other ten bodies spread from the Moon on.
Ephemeris(sun, moon) ==
    [k \in 1..12 |-> IF k = 1 THEN sun
                     ELSE IF k = 2 THEN moon
                     ELSE (moon + (k - 2) * Tenths(325)) % Deg(360)]

\* The spans of the twelve houses, in degrees: equal houses; unequal houses with
\* opposite cusps 180 apart; a house of exactly 180; a reflex house of 200.
SpanPatterns == {
    << 30, 30, 30, 30, 30, 30, 30, 30, 30, 30, 30, 30 >>,
    << 20, 25, 45, 45, 25, 20, 20, 25, 45, 45, 25, 20 >>,
    << 180, 10, 10, 10, 10, 10, 10, 20, 20, 20, 30, 30 >>,
    << 200, 10, 10, 10, 10, 10, 20, 20, 20, 20, 20, 10 >> }

RECURSIVE SumTo(_, _)
SumTo(spans, n) == IF n = 0 THEN 0 ELSE spans[n] + SumTo(spans, n - 1)

\* The cusps of swe.houses: the first cusp and the spans that follow it
Cusps(asc, spans) == [i \in 1..12 |-> (asc + Deg(SumTo(spans, i - 1))) % Deg(360)]

CuspSets == {Cusps(SunSamples[s], spans) : s \in DOMAIN SunSamples, spans \in SpanPatterns}

\* The longitudinal speeds swe.calc reports for bodies 0..11: negative, zero
\* and positive, rotated with the sample so that each body gets each.
Speeds(shift) == [k \in 1..12 |-> ((k + shift) % 3) - 1]

---------------------------------------------------------------------------
(* The attributes of the instance                                          *)

\* self.sun .. self.true_node in the order planets() assigns them; planets()
\* gives attribute i the longitude self.planets_degrees[i - 1] and the name
\* PlanetNames[i], planets_in_houses calls for_every_planet with the same pair.
PlanetAttrs == << "sun", "moon", "mercury", "venus", "mars", "jupiter", "saturn",
                  "uranus", "neptune", "pluto", "mean_node", "true_node" >>

\* self.first_house .. self.twelfth_house in the order houses() assigns them
HouseAttrs == << "first_house", "second_house", "third_house", "fourth_house",
                 "fifth_house", "sixth_house", "seventh_house", "eighth_house",
                 "ninth_house", "tenth_house", "eleventh_house", "twelfth_house" >>

IndexOf(seq, a) == CHOOSE i \in 1..Len(seq) : seq[i] = a

\* the attributes attrs[1..Len(dicts)] holding dicts
Attributes(attrs, dicts) ==
    [a \in {attrs[i] : i \in 1..Len(dicts)} |-> dicts[IndexOf(attrs, a)]]

Init ==
    /\ pc = "start"
    /\ exception = "none"
    /\ planets_degrees = << >>
    /\ houses_degree_ut = << >>
    /\ planets = << >>
    /\ houses = << >>
    /\ lunar_phase = Unset
    /\ planets_list = << >>
    /\ houses_list = << >>
    /\ swe_calc = << >>
    /\ ret = [fn |-> "none"]

---------------------------------------------------------------------------
(* get_all, as __init__ calls it: planets_in_houses, lunar_phase_calc,     *)
(* make_lists                                                              *)

\* planets_in_houses with the ephemeris answering degrees, cusps and speeds:
\* planets() and houses() classify the longitudes and the cusps, stopping at the
\* first position_calc that raises; then every body gets its house and its
\* retrograde flag.
PlanetsInHouses ==
    /\ pc = "start"
    /\ \E s \in DOMAIN SunSamples, moon \in Longitudes, cusps \in CuspSets :
         LET degrees == Ephemeris(SunSamples[s], moon)
             speeds == Speeds(s)
             ps == Assigned(1, degrees, PlanetNames)
             hs == Assigned(1, cusps, HouseNumbers)
         IN  /\ planets_degrees' = degrees
             /\ swe_calc' = speeds
             /\ IF Len(ps) < 12
                THEN /\ planets' = Attributes(PlanetAttrs, ps)
                     /\ UNCHANGED <<houses_degree_ut, houses>>
                     /\ pc' = "raised"
                     /\ exception' = "KerykeionException"
                ELSE IF Len(hs) < 12
                THEN /\ planets' = Attributes(PlanetAttrs, ps)
                     /\ houses_degree_ut' = cusps
                     /\ houses' = Attributes(HouseAttrs, hs)
                     /\ pc' = "raised"
                     /\ exception' = "KerykeionException"
                ELSE /\ planets' = [a \in DOMAIN Attributes(PlanetAttrs, ps) |->
                                      LET i == IndexOf(PlanetAttrs, a)
                                      IN  retrograde(for_every_planet(cusps, ps[i], degrees[i]),
                                                     speeds)]
                     /\ houses_degree_ut' = cusps
                     /\ houses' = Attributes(HouseAttrs, hs)
                     /\ pc' = "lunar"
                     /\ UNCHANGED exception
    /\ UNCHANGED <<lunar_phase, planets_list, houses_list, ret>>

LunarPhaseCalc ==
    /\ pc = "lunar"
    /\ LET r == lunar_phase_calc(planets_degrees)
       IN  IF IsRaise(r)
           THEN /\ pc' = "raised"
                /\ exception' = r.raised
                /\ UNCHANGED lunar_phase
           ELSE /\ lunar_phase' = r
                /\ pc' = "lists"
                /\ UNCHANGED exception
    /\ UNCHANGED <<planets_degrees, houses_degree_ut, planets, houses, planets_list,
                   houses_list, swe_calc, ret>>

MakeLists ==
    /\ pc = "lists"
    /\ planets_list' = << planets.sun, planets.moon, planets.mercury, planets.venus,
                          planets.mars, planets.jupiter, planets.saturn, planets.uranus,
                          planets.neptune, planets.pluto, planets.mean_node,
                          planets.true_node >>
    /\ houses_list' = << houses.first_house, houses.second_house, houses.third_house,
                         houses.fourth_house, houses.fifth_house, houses.sixth_house,
                         houses.seventh_house, houses.eighth_house, houses.ninth_house,
                         houses.tenth_house, houses.eleventh_house, houses.twelfth_house >>
    /\ pc' = "done"
    /\ UNCHANGED <<exception, planets_degrees, houses_degree_ut, planets, houses,
                   lunar_phase, swe_calc, ret>>

Next == PlanetsInHouses \/ LunarPhaseCalc \/ MakeLists

Spec == Init /\ [][Next]_vars

---------------------------------------------------------------------------
(* Direct calls of the pure functions                                      *)

\* KrInstance.position_calc(degree, number_name, "name"), a static method
PositionCalcCall ==
    /\ ret.fn = "none"
    /\ \E degree \in Degrees, number_name \in {"Sun", "1"} :
         ret' = [fn |-> "position_calc", args |-> << degree, number_name, "name" >>,
                 result |-> position_calc(degree, number_name, "name")]
    /\ UNCHANGED <<pc, exception, planets_degrees, houses_degree_ut, planets, houses,
                   lunar_phase, planets_list, houses_list, swe_calc>>

SpecPositionCalc == Init /\ [][PositionCalcCall]_vars

\* The ends of an arc: every ten degrees
ArcEnds == {Deg(10) * k : k \in 0..35}

\* The points tested against the arc from p1 to p2: its ends, the point
\* opposite its start, their neighbours, and a point every 20 degrees
ArcPoints(p1, p2) ==
    {p % Deg(360) : p \in Around({p1, p2, p1 + Deg(180)}) \cup {Deg(360) + Deg(5), Deg(360) + Deg(355)}
                           \cup {Deg(360) + Deg(20) * k : k \in 0..17}}

\* point_between(p1, p2, p3), the function nested in for_every_planet
PointBetweenCall ==
    /\ ret.fn = "none"
    /\ \E p1 \in ArcEnds, p2 \in ArcEnds :
         \E p3 \in ArcPoints(p1, p2) :
            ret' = [fn |-> "point_between", args |-> << p1, p2, p3 >>,
                    result |-> point_between(p1, p2, p3)]
    /\ UNCHANGED <<pc, exception, planets_degrees, houses_degree_ut, planets, houses,
                   lunar_phase, planets_list, houses_list, swe_calc>>

SpecPointBetween == Init /\ [][PointBetweenCall]_vars

\* lunar_phase_calc on an instance whose planets_degrees starts with sun, moon:
\* the dictionary it assigns to self.lunar_phase, or the exception it raises.
\* The longitudes are those position_calc lets through, negative ones too.
LunarPhaseCalcCall ==
    /\ ret.fn = "none"
    /\ \E sun \in Degrees, moon \in Degrees :
         /\ ~IsRaise(position_calc(sun, "Sun", "name"))
         /\ ~IsRaise(position_calc(moon, "Moon", "name"))
         /\ ret' = [fn |-> "lunar_phase_calc", args |-> << sun, moon >>,
                    result |-> lunar_phase_calc(<< sun, moon >>)]
    /\ UNCHANGED <<pc, exception, planets_degrees, houses_degree_ut, planets, houses,
                   lunar_phase, planets_list, houses_list, swe_calc>>

SpecLunarPhaseCalc == Init /\ [][LunarPhaseCalcCall]_vars

---------------------------------------------------------------------------
(* Properties of position_calc (SpecPositionCalc)                          *)

PositionCalcCalled == ret.fn = "position_calc"

\* C1: for every degree d with 0 <= d < 360, position_calc returns one sign
\* with sign_num = floor(d / 30), position = d - 30 * sign_num in [0, 30) and
\* abs_pos = d, so that sign_num * 30 + position = abs_pos; the intervals are
\* half-open: d = 30 * k is in sign k, anything just below it in sign k - 1.
C1_SignPartition ==
    (PositionCalcCalled /\ 0 <= ret.args[1] /\ ret.args[1] < Deg(360)) =>
        LET d == ret.args[1]
            r == ret.result
        IN  /\ ~IsRaise(r)
            /\ r.sign_num \in 0..11
            /\ r.sign_num = d \div Deg(30)
            /\ r.position = d - Deg(30) * r.sign_num
            /\ 0 <= r.position /\ r.position < Deg(30)
            /\ r.abs_pos = d
            /\ r.sign_num * Deg(30) + r.position = r.abs_pos
            /\ r.sign = SignTable[r.sign_num + 1].sign

\* A degree exactly on the boundary 30 has been classified as sign 1, position 0.
C1_Witness ==
    /\ PositionCalcCalled
    /\ ret.args[1] = Deg(30)
    /\ ~IsRaise(ret.result)
    /\ ret.result.sign_num = 1
    /\ ret.result.position = 0

\* C2: position_calc raises for every degree outside [0, 360), from 360 on as
\* well as below 0; no such degree is accepted, clamped or wrapped.
C2_RejectsOutOfRange ==
    (PositionCalcCalled /\ (ret.args[1] < 0 \/ ret.args[1] >= Deg(360))) =>
        IsRaise(ret.result)

---------------------------------------------------------------------------
(* Properties of point_between (SpecPointBetween)                          *)

PointBetweenCalled == ret.fn = "point_between"

\* the forward distance from a to b, (b - a + 360) mod 360
Forward(a, b) == (b - a + Deg(360)) % Deg(360)

\* C3: with d_ab = (b - a + 360) mod 360 and d_ap = (p - a + 360) mod 360,
\* point_between(a, b, p) is true exactly when (d_ab <= 180 and d_ap <= d_ab)
\* or (d_ab > 180 and d_ap > d_ab); for a = 350, b = 10 the points 355 and 5
\* are inside and 200 is outside, for a = 0, b = 200 the point 300 is inside
\* and 100 is outside.
C3_IntervalRule ==
    PointBetweenCalled =>
        LET a == ret.args[1]
            b == ret.args[2]
            p == ret.args[3]
            d_ab == Forward(a, b)
            d_ap == Forward(a, p)
        IN  /\ ret.result = (   (d_ab <= Deg(180) /\ d_ap <= d_ab)
                             \/ (d_ab > Deg(180) /\ d_ap > d_ab))
            /\ (a = Deg(350) /\ b = Deg(10) /\ p \in {Deg(355), Deg(5)}) => ret.result = TRUE
            /\ (a = Deg(350) /\ b = Deg(10) /\ p = Deg(200)) => ret.result = FALSE
            /\ (a = Deg(0) /\ b = Deg(200) /\ p = Deg(300)) => ret.result = TRUE
            /\ (a = Deg(0) /\ b = Deg(200) /\ p = Deg(100)) => ret.result = FALSE

\* The point 180 has been tested against the arc from 0 to 180, a span of
\* exactly half the circle, and found inside.
C3_Witness ==
    /\ PointBetweenCalled
    /\ ret.args = << Deg(0), Deg(180), Deg(180) >>
    /\ ret.result = TRUE

\* C4, as stated: for a # b the start of the interval is inside and its end is
\* outside: point_between(a, b, a) is true and point_between(a, b, b) is false.
C4_EndExcluded ==
    (PointBetweenCalled /\ ret.args[1] # ret.args[2]) =>
        /\ ret.args[3] = ret.args[1] => ret.result = TRUE
        /\ ret.args[3] = ret.args[2] => ret.result = FALSE

\* C4, amended: for a # b, point_between(a, b, a) and point_between(a, b, b)
\* are both true when the forward span from a to b is at most 180 and both
\* false when it is more: both ends of a house of at most 180 degrees are inside.
C4_BothEndsAlike ==
    (PointBetweenCalled /\ ret.args[1] # ret.args[2]
                        /\ ret.args[3] \in {ret.args[1], ret.args[2]}) =>
        ret.result = (Forward(ret.args[1], ret.args[2]) <= Deg(180))

\* The end of the arc from 0 to 30 has been tested and found inside.
C4_Witness ==
    /\ PointBetweenCalled
    /\ ret.args = << Deg(0), Deg(30), Deg(30) >>
    /\ ret.result = TRUE

---------------------------------------------------------------------------
(* Properties of the house assignment (Spec)                               *)

\* planets_in_houses has run to its end
HousesAssigned == pc \in {"lunar", "lists", "done"}

\* the longitude planets_in_houses paired with attribute a
DegreeOf(a) == planets_degrees[IndexOf(PlanetAttrs, a)]

\* the twelve evenly spaced cusps 0, 30, .., 330
EvenCusps == [i \in 1..12 |-> Deg(30) * (i - 1)]

\* the houses whose interval test holds for longitude p
Matching(cusps, p) ==
    {h \in 1..12 : point_between(cusps[h], cusps[NextCusp(h)], p) = TRUE}

\* the forward span of house h
Span(cusps, h) == Forward(cusps[h], cusps[NextCusp(h)])

\* twelve distinct cusps in increasing cyclic order: the twelve forward spans
\* are positive and sum to 360
RECURSIVE SpanSum(_, _)
SpanSum(cusps, h) == IF h = 0 THEN 0 ELSE Span(cusps, h) + SpanSum(cusps, h - 1)

ValidCusps(cusps) ==
    /\ \A h \in 1..12 : Span(cusps, h) > 0
    /\ SpanSum(cusps, 12) = Deg(360)

\* C5, as stated: with the evenly spaced cusps a body at longitude d gets house
\* floor(d / 30) + 1; a body at 45 gets house 2, and a body exactly on a cusp
\* gets the house that starts there (at 30: house 2, not house 1).
C5_HouseIsFloor ==
    (HousesAssigned /\ houses_degree_ut = EvenCusps) =>
        \A a \in DOMAIN planets :
            planets[a].house = HouseNames[(DegreeOf(a) \div Deg(30)) + 1]

\* C5, amended: with the evenly spaced cusps a body at longitude d that is not
\* on a cusp gets house floor(d / 30) + 1 (a body at 45 gets house 2), a body
\* at 0 gets house 1, and a body exactly on the cusp 30 * k, k in 1..11, gets
\* house k, the house that ends there (at 30: house 1, not house 2).
C5_HouseOnCuspIsEarlier ==
    (HousesAssigned /\ houses_degree_ut = EvenCusps) =>
        \A a \in DOMAIN planets :
            LET d == DegreeOf(a)
            IN  /\ planets[a].house =
                      IF d % Deg(30) = 0 /\ d > 0
                      THEN HouseNames[d \div Deg(30)]
                      ELSE HouseNames[(d \div Deg(30)) + 1]
                /\ d = Deg(45) => planets[a].house = "2nd House"
                /\ d = Deg(30) => planets[a].house = "1st House"

\* The Moon stood exactly on the cusp 30 of the evenly spaced houses and got house 1.
C5_Witness ==
    /\ HousesAssigned
    /\ houses_degree_ut = EvenCusps
    /\ planets_degrees[2] = Deg(30)
    /\ planets.moon.house = "1st House"

\* C6, as stated: for every valid cusp set and every body longitude exactly
\* one of the twelve interval tests is true.
C6_ExactlyOneMatch ==
    (HousesAssigned /\ ValidCusps(houses_degree_ut)) =>
        \A i \in 1..12 :
            Cardinality(Matching(houses_degree_ut, planets_degrees[i])) = 1

\* C6, amended: for every valid cusp set in which no house spans more than
\* 180 degrees, exactly one of the twelve interval tests is true of a body
\* that is on no cusp, and exactly two are true of a body on a cusp: those of
\* the house that ends there and of the house that starts there.
C6_OneMatchOffCusps ==
    (HousesAssigned /\ ValidCusps(houses_degree_ut)
                    /\ \A h \in 1..12 : Span(houses_degree_ut, h) <= Deg(180)) =>
        \A i \in 1..12 :
            LET p == planets_degrees[i]
                m == Matching(houses_degree_ut, p)
            IN  IF \E h \in 1..12 : houses_degree_ut[h] = p
                THEN \E h \in 1..12 : /\ houses_degree_ut[NextCusp(h)] = p
                                      /\ m = {h, NextCusp(h)}
                                      /\ Cardinality(m) = 2
                ELSE /\ Cardinality(m) = 1
                     /\ \E h \in m : planets[PlanetAttrs[i]].house = HouseNames[h]

\* With unequal houses none of which exceeds 180, the Moon stood on the cusp
\* of house 3 and passed the tests of houses 2 and 3.
C6_Witness ==
    /\ HousesAssigned
    /\ houses_degree_ut = Cusps(Deg(0), << 20, 25, 45, 45, 25, 20, 20, 25, 45, 45, 25, 20 >>)
    /\ planets_degrees[2] = Deg(45)
    /\ Matching(houses_degree_ut, planets_degrees[2]) = {2, 3}
    /\ planets.moon.house = "2nd House"

\* C7: when none of the twelve interval tests matches a body's longitude the
\* assignment fails and the chart build is aborted; no chart, and no body
\* carrying a placeholder for its house, is returned.
C7_NoMatchAborts ==
    /\ (/\ Len(houses_degree_ut) = 12
        /\ \E i \in 1..12 : Matching(houses_degree_ut, planets_degrees[i]) = {})
           => pc = "raised"
    /\ \A a \in DOMAIN planets :
           "house" \in DOMAIN planets[a] => planets[a].house # "error!"
    /\ pc = "done" => \A i \in 1..12 : planets_list[i].house # "error!"

---------------------------------------------------------------------------
(* Properties of the lunar phase (Spec)                                    *)

\* lunar_phase_calc has assigned self.lunar_phase
LunarPhaseSet == pc \in {"lists", "done"}

\* the Sun-Moon separation of the claims: (moon - sun + 360) mod 360
Separation == (planets_degrees[2] - planets_degrees[1] + Deg(360)) % Deg(360)

InRange(d) == 0 <= d /\ d < Deg(360)

C9_Table == << 0, 30, 40, 50, 60, 70, 80, 90, 120, 130, 140, 150, 160, 170, 180,
               210, 220, 230, 240, 250, 260, 270, 300, 310, 320, 330, 340, 350 >>

\* bucket k of the table: from C9_Table[k], up to the next entry (360 for bucket 28)
C9_InBucket(k, sep) ==
    /\ Deg(C9_Table[k]) <= sep
    /\ sep < (IF k = 28 THEN Deg(360) ELSE Deg(C9_Table[k + 1]))

\* C9: for every separation s in [0, 360), sun_phase is the one k in 1..28
\* with table[k-1] <= s < table[k] (360 closing bucket 28), table being
\* 0, 30, 40, .., 350; s = 22.7 gives sun_phase 1.
C9_SolarIndex ==
    LunarPhaseSet =>
        LET sep == lunar_phase.degrees_between_s_m
        IN  /\ lunar_phase.sun_phase \in 1..28
            /\ C9_InBucket(lunar_phase.sun_phase, sep)
            /\ \A k \in 1..28 : C9_InBucket(k, sep) => k = lunar_phase.sun_phase
            /\ sep = Tenths(227) => lunar_phase.sun_phase = 1

\* A separation of exactly 30, the first breakpoint, gave sun_phase 2.
C9_Witness ==
    /\ LunarPhaseSet
    /\ lunar_phase.degrees_between_s_m = Deg(30)
    /\ lunar_phase.sun_phase = 2

\* C10, as stated: a separation of exactly 0 gives moon_phase 1 with the
\* new-moon glyph, a separation of exactly 180 gives moon_phase 14 (not 15)
\* with the full-moon glyph.
C10_FullMoonAt180 ==
    LunarPhaseSet =>
        /\ Separation = 0 =>
               lunar_phase.moon_phase = 1 /\ lunar_phase.moon_emoji = "U+1F311"
        /\ Separation = Deg(180) =>
               lunar_phase.moon_phase = 14 /\ lunar_phase.moon_emoji = "U+1F315"

\* C10, amended: a separation of exactly 0 gives moon_phase 1 with the
\* new-moon glyph; a separation of exactly 180 gives moon_phase 15 (not 14)
\* with the waning-gibbous glyph, and the separations just below 180 give
\* moon_phase 14 with the full-moon glyph.
C10_WaningAt180 ==
    LunarPhaseSet =>
        /\ Separation = 0 =>
               lunar_phase.moon_phase = 1 /\ lunar_phase.moon_emoji = "U+1F311"
        /\ Separation = Deg(180) =>
               lunar_phase.moon_phase = 15 /\ lunar_phase.moon_emoji = "U+1F316"
        /\ Separation = Deg(180) - 1 =>
               lunar_phase.moon_phase = 14 /\ lunar_phase.moon_emoji = "U+1F315"

\* Sun at 0 and Moon at 180 gave moon_phase 15.
C10_Witness ==
    /\ LunarPhaseSet
    /\ planets_degrees[1] = Deg(0)
    /\ planets_degrees[2] = Deg(180)
    /\ lunar_phase.moon_phase = 15
    /\ lunar_phase.moon_emoji = "U+1F316"

---------------------------------------------------------------------------
(* Properties of moon_emoji (Spec)                                         *)

\* The partition of C11: the glyph of synodic index m
C11_Glyph(m) ==
    IF m = 1 THEN "U+1F311"                      \* new
    ELSE IF m \in 2..6 THEN "U+1F312"            \* waxing crescent
    ELSE IF m \in 7..9 THEN "U+1F313"            \* first quarter
    ELSE IF m \in 10..13 THEN "U+1F314"          \* waxing gibbous
    ELSE IF m = 14 THEN "U+1F315"                \* full
    ELSE IF m \in 15..19 THEN "U+1F316"          \* waning gibbous
    ELSE IF m \in 20..22 THEN "U+1F317"          \* last quarter
    ELSE "U+1F318"                               \* waning crescent, 23..28

C11_Glyphs == {"U+1F311", "U+1F312", "U+1F313", "U+1F314", "U+1F315", "U+1F316",
               "U+1F317", "U+1F318"}

\* C11: for every synodic index m in 1..28, moon_emoji(m) is the glyph of the
\* partition 1 new, 2..6 waxing crescent, 7..9 first quarter, 10..13 waxing
\* gibbous, 14 full, 15..19 waning gibbous, 20..22 last quarter, 23..28
\* waning crescent; every index gets one of the 8 glyphs and each glyph is used.
C11_EmojiPartition ==
    /\ LunarPhaseSet =>
          /\ lunar_phase.moon_phase \in 1..28
          /\ lunar_phase.moon_emoji = C11_Glyph(lunar_phase.moon_phase)
          /\ lunar_phase.moon_emoji \in C11_Glyphs
    /\ \A m \in 1..28 : moon_emoji(m) = Return(C11_Glyph(m))
    /\ {moon_emoji(m).result : m \in 1..28} = C11_Glyphs

\* A separation just below 180 gave moon_phase 14 and the glyph of the full moon.
C11_Witness ==
    /\ LunarPhaseSet
    /\ lunar_phase.moon_phase = 14
    /\ lunar_phase.moon_emoji = "U+1F315"

---------------------------------------------------------------------------
(* Qualities and elements of the signs (SpecPositionCalc)                  *)

C12_Qualities == << "Cardinal", "Fixed", "Mutable" >>
C12_Elements == << "Fire", "Earth", "Air", "Water" >>
C12_Signs == << "Ari", "Tau", "Gem", "Can", "Leo", "Vir", "Lib", "Sco", "Sag", "Cap",
                "Aqu", "Pis" >>

\* the (quality, element) pair position_calc gives to the start of sign i
C12_Pair(i) ==
    LET r == position_calc(Deg(30) * i, "Sun", "name")
    IN  << r.quality, r.element >>

\* C12: for every sign index i in 0..11 the dictionary of position_calc has
\* quality = [Cardinal, Fixed, Mutable][i mod 3] and element = [Fire, Earth,
\* Air, Water][i mod 4], sign i being the i-th of Aries..Pisces, and the 12
\* (quality, element) pairs are pairwise distinct.
C12_QualityElementCycles ==
    /\ (PositionCalcCalled /\ ~IsRaise(ret.result)) =>
          LET r == ret.result
              i == r.sign_num
          IN  /\ i \in 0..11
              /\ r.quality = C12_Qualities[(i % 3) + 1]
              /\ r.element = C12_Elements[(i % 4) + 1]
              /\ r.sign = C12_Signs[i + 1]
    /\ \A i, j \in 0..11 : i # j => C12_Pair(i) # C12_Pair(j)

\* A degree in Leo (sign 4) has been classified as Fixed and Fire.
C12_Witness ==
    /\ PositionCalcCalled
    /\ ret.args[1] = Deg(120)
    /\ ~IsRaise(ret.result)
    /\ ret.result.sign_num = 4
    /\ ret.result.quality = "Fixed"
    /\ ret.result.element = "Fire"

---------------------------------------------------------------------------
(* The lists after get_all (Spec)                                          *)

\* C13: after get_all completes, planets_list holds exactly the 12 bodies in
\* the order Sun, Moon, Mercury, Venus, Mars, Jupiter, Saturn, Uranus,
\* Neptune, Pluto, Mean Node, True Node; every entry has a house and a
\* retrograde flag, the flag being true exactly when the speed of that same
\* body is negative (zero speed is not retrograde); the lunar phase is
\* computed from entries 0 (Sun) and 1 (Moon) of the same longitude list.
C13_PlanetsListFinalized ==
    pc = "done" =>
        /\ Len(planets_list) = 12
        /\ \A i \in 1..12 :
              LET p == planets_list[i]
              IN  /\ p["name"] = PlanetNames[i]
                  /\ p["abs_pos"] = planets_degrees[i]
                  /\ "house" \in DOMAIN p
                  /\ p["house"] \in {HouseNames[h] : h \in 1..12} \cup {"error!"}
                  /\ "retrograde" \in DOMAIN p
                  /\ p["retrograde"] = (swe_calc[i] < 0)
        /\ lunar_phase.degrees_between_s_m
              = separation(planets_list[2]["abs_pos"], planets_list[1]["abs_pos"])

\* get_all has completed with the Sun standing still (not retrograde) and
\* Mercury moving backwards (retrograde).
C13_Witness ==
    /\ pc = "done"
    /\ swe_calc[1] = 0
    /\ planets_list[1]["name"] = "Sun"
    /\ planets_list[1]["retrograde"] = FALSE
    /\ swe_calc[3] < 0
    /\ planets_list[3]["name"] = "Mercury"
    /\ planets_list[3]["retrograde"] = TRUE
    /\ lunar_phase.moon_phase \in 1..28

---------------------------------------------------------------------------
(* point_between and the forward arc (SpecPointBetween)                    *)

\* C14, as stated: for all a, b, p in [0,360), point_between(a, b, p) is true
\* exactly when p lies on the forward arc from a to b, i.e. when
\* (p - a + 360) mod 360 does not exceed (b - a + 360) mod 360, also when that
\* arc is a reflex span longer than 180 degrees.
C14_ForwardArc ==
    PointBetweenCalled =>
        LET a == ret.args[1]
            b == ret.args[2]
            p == ret.args[3]
        IN  ret.result = (Forward(a, p) <= Forward(a, b))

\* C14, amended: point_between(a, b, p) is true exactly when p lies on the
\* shorter of the two arcs joining a and b: on the forward arc from a to b,
\* ends included, when that arc spans at most 180 degrees; strictly inside
\* the forward arc from b to a, ends excluded, when the arc from a to b is a
\* reflex span longer than 180 degrees.
C14_ShorterArc ==
    PointBetweenCalled =>
        LET a == ret.args[1]
            b == ret.args[2]
            p == ret.args[3]
        IN  IF Forward(a, b) <= Deg(180)
            THEN ret.result = (Forward(a, p) <= Forward(a, b))
            ELSE ret.result = (0 < Forward(b, p) /\ Forward(b, p) < Forward(b, a))

\* The point 100 has been tested against the reflex arc from 0 to 200: it
\* lies on the forward arc and the test is false.
C14_Witness ==
    /\ PointBetweenCalled
    /\ ret.args = << Deg(0), Deg(200), Deg(100) >>
    /\ Forward(ret.args[1], ret.args[3]) <= Forward(ret.args[1], ret.args[2])
    /\ ret.result = FALSE

---------------------------------------------------------------------------
(* lunar_phase_calc without a bucket (SpecLunarPhaseCalc)                  *)

LunarPhaseCalcCalled == ret.fn = "lunar_phase_calc"

\* the separation lunar_phase_calc computes from the arguments of the call
C15_Separation == separation(ret.args[2], ret.args[1])

\* no bucket of the 28 holds the separation
C15_NoBucket == \A x \in 0..27 : ~(x * step <= C15_Separation /\ C15_Separation < (x + 1) * step)

\* C15, as stated: lunar_phase_calc never raises; when the separation falls
\* in no bucket it still produces a lunar_phase in which moon_phase and
\* sun_phase are both 'NO DATA', moon_emoji being computed from the sentinel
\* without error.
C15_NoDataNeverRaises ==
    LunarPhaseCalcCalled =>
        /\ ~IsRaise(ret.result)
        /\ C15_NoBucket => /\ ret.result.moon_phase = NO_DATA
                           /\ ret.result.sun_phase = NO_DATA
                           /\ "moon_emoji" \in DOMAIN ret.result

\* What the code does instead: with no bucket the call ends in the TypeError
\* of moon_emoji, and with a bucket it returns a dictionary.
C15_NoBucketRaises ==
    LunarPhaseCalcCalled =>
        IF C15_NoBucket
        THEN ret.result = Raise("TypeError")
        ELSE /\ ~IsRaise(ret.result)
             /\ ret.result.moon_phase \in 1..28

\* The Sun at -1 and the Moon just below 360: a separation above 360, in no
\* bucket.
C15_Witness ==
    /\ LunarPhaseCalcCalled
    /\ ret.args = << 0 - Deg(1), Deg(360) - 1 >>
    /\ C15_NoBucket
    /\ IsRaise(ret.result)

---------------------------------------------------------------------------
(* The first matching house (Spec)                                         *)

\* no house spans more than half the circle
C16_NoReflexSpan(cusps) == \A h \in 1..12 : Span(cusps, h) <= Deg(180)

\* the lowest-numbered element of a non-empty set of houses
C16_Lowest(M) == CHOOSE h \in M : \A k \in M : h <= k

\* C16: for 12 cusps in increasing cyclic order whose every consecutive
\* forward span is at most 180 degrees, every body longitude in [0,360) is
\* assigned one of the 12 houses ('error!' is never produced), and the house
\* assigned is the lowest-numbered house i in 1..12 whose test
\* point_between(cusp[i-1], cusp[i mod 12], p) is true.
C16_FirstMatchWins ==
    (/\ HousesAssigned
     /\ ValidCusps(houses_degree_ut)
     /\ C16_NoReflexSpan(houses_degree_ut)) =>
        \A a \in DOMAIN planets :
            LET M == Matching(houses_degree_ut, DegreeOf(a))
            IN  /\ DegreeOf(a) \in 0..(Deg(360) - 1)
                /\ M # {}
                /\ planets[a].house # "error!"
                /\ planets[a].house \in {HouseNames[h] : h \in 1..12}
                /\ planets[a].house = HouseNames[C16_Lowest(M)]

\* With a house spanning exactly 180 degrees among the cusps, a body passed
\* the tests of two houses and got the lower-numbered one, while another
\* body got a house after the first.
C16_Witness ==
    /\ HousesAssigned
    /\ ValidCusps(houses_degree_ut)
    /\ C16_NoReflexSpan(houses_degree_ut)
    /\ \E h \in 1..12 : Span(houses_degree_ut, h) = Deg(180)
    /\ \E a \in DOMAIN planets :
          LET M == Matching(houses_degree_ut, DegreeOf(a))
          IN  /\ Cardinality(M) = 2
              /\ planets[a].house = HouseNames[C16_Lowest(M)]
    /\ \E a \in DOMAIN planets : planets[a].house \notin {"1st House", "error!"}

=============================================================================
